---- MODULE Spec2Model ----
(***************************************************************************)
(* The asynchronous import-task tracker of EnhancedGeometryClient           *)
(* (src/clients/python/enhanced_geometry_client.py).                        *)
(*                                                                         *)
(* Application threads call import_model_async, import_multiple_files,      *)
(* get_import_task_status, cancel_import_task, wait_for_import_completion,  *)
(* cleanup_completed_tasks and disconnect; the threads of the               *)
(* ThreadPoolExecutor run _import_model_worker.  The client holds no lock,  *)
(* so every Python statement that reads or writes shared state is a         *)
(* separate step; program counters are named after the source line.         *)
(***************************************************************************)
EXTENDS Integers, Sequences, FiniteSets, TLC

\* Number of ImportTask objects created in a behaviour.
MaxTasks == 2

\* ThreadPoolExecutor(max_workers=5)
MaxWorkers == 5

\* Application threads.
Callers == {"main", "aux"}

\* ImportTask objects, by identity (order of construction).
Tasks == 1..MaxTasks

\* Python's None, for Optional[str] fields and absent values.
None == "<None>"

\* task_id = f"import_{self.task_counter}"
TaskId(n) == <<"import_", n>>

\* The identifiers a caller may pass to cancel or wait.
IdSpace == {TaskId(n) : n \in 1..MaxTasks}

\* str(n) for the counts that occur in a status message.
NumStr(n) == CASE n = 0 -> "0" [] n = 1 -> "1" [] n = 2 -> "2" [] OTHER -> "many"

\* What stub.ImportModelFile can do: return a response, or raise.
Outcomes ==
  { [raised |-> FALSE, success |-> TRUE,  message |-> "imported", shape_ids |-> <<"S1", "S2">>],
    [raised |-> FALSE, success |-> FALSE, message |-> "file not found", shape_ids |-> <<>>],
    [raised |-> TRUE,  success |-> FALSE, message |-> "rpc unavailable", shape_ids |-> <<>>] }

NoResponse == [raised |-> FALSE, success |-> FALSE, message |-> None, shape_ids |-> <<>>]

VARIABLES
  task_counter,        \* self.task_counter
  import_tasks,        \* self.import_tasks: dict task_id -> ImportTask object
  progress_callbacks,  \* keys of self.progress_callbacks
  task,                \* the fields of each ImportTask object
  fut,                 \* the concurrent.futures.Future of each task's work item
  wpc,                 \* each work item's position in _import_model_worker
  response,            \* the worker's local `response` / caught exception
  notes,               \* the progress values the observer was shown, per task, in order
  nAlloc,              \* ImportTask objects constructed or reserved so far
  cpc,                 \* each application thread's position
  loc,                 \* each application thread's locals
  ret,                 \* the call result the last step delivered (NoRet: none)
  applied,             \* tasks for which cancel_import_task has returned True
  channel,             \* self.channel: "open", or "closed" after channel.close()
  executor             \* self.executor: "running", or "shutdown"

vars == <<task_counter, import_tasks, progress_callbacks, task, fut, wpc, response,
          notes, nAlloc, cpc, loc, ret, applied, channel, executor>>

\* The tracker's own state: everything but the callers' positions, locals and results.
tracker == <<task_counter, import_tasks, progress_callbacks, task, fut, wpc, response,
             notes, nAlloc, applied, channel, executor>>

----
\* @dataclass ImportTask: a fresh object with the given id and file_path, the
\* other fields at their defaults.
ImportTask(id, path) ==
  [ id |-> id, file_path |-> path, future |-> FALSE, progress |-> 0, is_active |-> TRUE,
    status_message |-> <<"Starting...">>, shape_ids |-> <<>>, error |-> None ]

\* An object that has not been constructed yet.
Unborn == [ImportTask(<<>>, None) EXCEPT !.status_message = <<>>]

NoFuture == [state |-> "NONE", result |-> NoResponse, exception |-> None]

\* The locals of a thread: those of the API call it is in (todo, completed;
\* paths, i, task_map, base) and those of the call nested in it (id, t, tmp,
\* cb, path), with the position the nested call returns to (ra).
NoLocals ==
  [ id |-> <<>>, t |-> 0, tmp |-> 0, cb |-> FALSE, path |-> None, ra |-> "idle",
    todo |-> {}, completed |-> {}, paths |-> <<>>, i |-> 0, task_map |-> <<>>, base |-> 0 ]

\* A call's outcome: the thread that made it (by), the value it returned (val, or result for a ModelImportResult)
\* or the exception it raised (exc, with its message), and the task it acted on.
NoRet ==
  [ by |-> None, op |-> None, id |-> <<>>, t |-> 0, val |-> None,
    result |-> NoResponse, exc |-> None, msg |-> <<>>, paths |-> <<>>, map |-> <<>> ]

\* The client after __init__ and connect() (lines 70-91): no task, the counter
\* at 0, the pool running and the channel open.
Init ==
  /\ task_counter = 0
  /\ import_tasks = [i \in {} |-> 0]
  /\ progress_callbacks = {}
  /\ task = [t \in Tasks |-> Unborn]
  /\ fut = [t \in Tasks |-> NoFuture]
  /\ wpc = [t \in Tasks |-> "none"]
  /\ response = [t \in Tasks |-> NoResponse]
  /\ notes = [t \in Tasks |-> <<>>]
  /\ nAlloc = 0
  /\ cpc = [c \in Callers |-> "idle"]
  /\ loc = [c \in Callers |-> NoLocals]
  /\ ret = NoRet
  /\ applied = {}
  /\ channel = "open"
  /\ executor = "running"

\* dict operations
DictPut(d, k, v) == [i \in DOMAIN d \cup {k} |-> IF i = k THEN v ELSE d[i]]
DictDel(d, k) == [i \in DOMAIN d \ {k} |-> d[i]]

\* Future.done(): cancelled or finished.
Done(t) == fut[t].state \in {"CANCELLED", "FINISHED"}

\* A call moves on to its next statement; no call result is delivered.
Goto(c, pc) == cpc' = [cpc EXCEPT ![c] = pc] /\ ret' = NoRet

\* A call made with the locals fr ends: its result is delivered and the thread
\* goes on at the return address: idle, its locals dropped, for a call of the
\* application; the calling method otherwise.
ReturnTo(c, fr, r) ==
  /\ cpc' = [cpc EXCEPT ![c] = fr.ra]
  /\ loc' = [loc EXCEPT ![c] = IF fr.ra = "idle" THEN NoLocals ELSE [fr EXCEPT !.ra = "idle"]]
  /\ ret' = [r EXCEPT !.by = c]

\* A call ends: back to where it was called from, with its result.
Return(c, r) == ReturnTo(c, loc[c], r)

\* An exception that no frame catches: the thread is back to idle.
Raise(c, r) == ReturnTo(c, NoLocals, r)

----
(***************************************************************************)
(* import_model_async (lines 188-219)                                       *)
(***************************************************************************)

\* line 198, the read half of `self.task_counter += 1`, in a call that begins
\* with the locals fr.  cb says whether a progress_callback was passed.
SubmitEnter(c, fr, path, cb) ==
  /\ nAlloc < MaxTasks
  /\ nAlloc' = nAlloc + 1
  /\ loc' = [loc EXCEPT ![c] = [fr EXCEPT !.t = nAlloc + 1, !.cb = cb, !.path = path,
                                       !.id = <<>>, !.tmp = task_counter]]
  /\ Goto(c, "s198")
  /\ UNCHANGED <<task_counter, import_tasks, progress_callbacks, task, fut, wpc,
                 response, notes, applied, channel, executor>>

\* import_model_async called by the application.
Submit198Load(c, path, cb) ==
  /\ cpc[c] = "idle"
  /\ SubmitEnter(c, NoLocals, path, cb)

\* line 198, the write half of `self.task_counter += 1`.
Submit198Store(c) ==
  /\ cpc[c] = "s198"
  /\ task_counter' = loc[c].tmp + 1
  /\ Goto(c, "s199")
  /\ UNCHANGED <<import_tasks, progress_callbacks, task, fut, wpc, response, notes,
                 nAlloc, loc, applied, channel, executor>>

\* lines 199-207: task_id is formatted from the counter as it is now, and the
\* ImportTask object is constructed.
Submit199(c) ==
  /\ cpc[c] = "s199"
  /\ loc' = [loc EXCEPT ![c].id = TaskId(task_counter)]
  /\ task' = [task EXCEPT ![loc[c].t] = ImportTask(TaskId(task_counter), loc[c].path)]
  /\ Goto(c, "s209")
  /\ UNCHANGED <<task_counter, import_tasks, progress_callbacks, fut, wpc, response,
                 notes, nAlloc, applied, channel, executor>>

\* line 209: self.import_tasks[task_id] = task
Submit209(c) ==
  /\ cpc[c] = "s209"
  /\ import_tasks' = DictPut(import_tasks, loc[c].id, loc[c].t)
  /\ Goto(c, IF loc[c].cb THEN "s213" ELSE "s216")
  /\ UNCHANGED <<task_counter, progress_callbacks, task, fut, wpc, response, notes,
                 nAlloc, loc, applied, channel, executor>>

\* lines 212-213: self.progress_callbacks[task_id] = progress_callback
Submit213(c) ==
  /\ cpc[c] = "s213"
  /\ progress_callbacks' = progress_callbacks \cup {loc[c].id}
  /\ Goto(c, "s216")
  /\ UNCHANGED <<task_counter, import_tasks, task, fut, wpc, response, notes,
                 nAlloc, loc, applied, channel, executor>>

\* line 216, right-hand side: self.executor.submit(...) queues the work item and
\* returns its Future, pending; on a pool that was shut down it raises
\* RuntimeError, which leaves import_model_async.
Submit216Call(c) ==
  /\ cpc[c] = "s216"
  /\ IF executor = "running"
       THEN /\ fut' = [fut EXCEPT ![loc[c].t].state = "PENDING"]
            /\ Goto(c, "s216a")
            /\ UNCHANGED loc
       ELSE /\ fut' = fut
            /\ Raise(c, [NoRet EXCEPT !.op = "submit", !.id = loc[c].id, !.t = loc[c].t,
                                       !.exc = "RuntimeError",
                                       !.msg = <<"cannot schedule new futures after shutdown">>])
  /\ UNCHANGED <<task_counter, import_tasks, progress_callbacks, task, wpc, response,
                 notes, nAlloc, applied, channel, executor>>

\* line 216, the assignment `task.future = ...`, and line 219: return task_id.
Submit216Assign(c) ==
  /\ cpc[c] = "s216a"
  /\ task' = [task EXCEPT ![loc[c].t].future = TRUE]
  /\ Return(c, [NoRet EXCEPT !.op = "submit", !.id = loc[c].id, !.t = loc[c].t])
  /\ UNCHANGED <<task_counter, import_tasks, progress_callbacks, fut, wpc, response,
                 notes, nAlloc, applied, channel, executor>>

SubmitSteps(c) ==
  \/ Submit198Store(c)
  \/ Submit199(c)
  \/ Submit209(c)
  \/ Submit213(c)
  \/ Submit216Call(c)
  \/ Submit216Assign(c)

----
(***************************************************************************)
(* The pool and _import_model_worker (lines 221-286)                        *)
(***************************************************************************)

\* Work items a pool thread is executing.
Busy == {t \in Tasks : wpc[t] \notin {"none", "done"}}

\* A pool thread takes a pending work item: Future.set_running_or_notify_cancel()
\* makes it RUNNING (a cancelled item is dropped and never runs).  With no more
\* work items than pool threads, the items may start in any order.
WorkerStart(t) ==
  /\ fut[t].state = "PENDING"
  /\ wpc[t] = "none"
  /\ Cardinality(Busy) < MaxWorkers
  /\ fut' = [fut EXCEPT ![t].state = "RUNNING"]
  /\ wpc' = [wpc EXCEPT ![t] = "w224"]
  /\ ret' = NoRet
  /\ UNCHANGED <<task_counter, import_tasks, progress_callbacks, task, response,
                 notes, nAlloc, cpc, loc, applied, channel, executor>>

\* One statement of the worker that assigns fields of its task.
WorkerWrite(t, at, new, next) ==
  /\ wpc[t] = at
  /\ task' = [task EXCEPT ![t] = new]
  /\ wpc' = [wpc EXCEPT ![t] = next]
  /\ ret' = NoRet
  /\ UNCHANGED <<task_counter, import_tasks, progress_callbacks, fut, response,
                 notes, nAlloc, cpc, loc, applied, channel, executor>>

\* _notify_progress (lines 288-294): the callback registered under task.id, if
\* any, is called with the task and sees its fields as they are now; whatever
\* it raises is caught and printed.
NotifyProgress(t) ==
  notes' = [notes EXCEPT ![t] = IF task[t].id \in progress_callbacks
                                THEN Append(@, task[t].progress) ELSE @]

WorkerNotify(t, at, next) ==
  /\ wpc[t] = at
  /\ NotifyProgress(t)
  /\ wpc' = [wpc EXCEPT ![t] = next]
  /\ ret' = NoRet
  /\ UNCHANGED <<task_counter, import_tasks, progress_callbacks, task, fut, response,
                 nAlloc, cpc, loc, applied, channel, executor>>

\* Mutant: the observer's exception is not caught in _notify_progress and
\* takes the worker to its except block (or out of it, from line 285).
WorkerNotifyUncaught(t, at, next) ==
  /\ wpc[t] = at
  /\ task[t].id \in progress_callbacks
  /\ notes' = [notes EXCEPT ![t] = Append(@, 100 + task[t].progress)]
  /\ response' = [response EXCEPT ![t] = [NoResponse EXCEPT !.raised = TRUE,
                                                          !.message = "observer error"]]
  /\ wpc' = [wpc EXCEPT ![t] = IF at = "w285" THEN "w286" ELSE "w282"]
  /\ ret' = NoRet
  /\ UNCHANGED <<task_counter, import_tasks, progress_callbacks, task, fut,
                 nAlloc, cpc, loc, applied, channel, executor>>

\* _notify_progress (lines 290-294) when the registered callback raises an
\* Exception: it is caught and printed, and the worker goes on.  The call is
\* noted as 100 + the progress shown.
WorkerNotifyCaught(t, at, next) ==
  /\ wpc[t] = at
  /\ task[t].id \in progress_callbacks
  /\ notes' = [notes EXCEPT ![t] = Append(@, 100 + task[t].progress)]
  /\ response' = response
  /\ wpc' = [wpc EXCEPT ![t] = next]
  /\ ret' = NoRet
  /\ UNCHANGED <<task_counter, import_tasks, progress_callbacks, task, fut,
                 nAlloc, cpc, loc, applied, channel, executor>>

\* The notifications of the worker (lines 226, 243, 249, 278, 285) with an
\* observer that raises.
ObserverRaises(t) ==
  \/ WorkerNotifyCaught(t, "w226", "w241")
  \/ WorkerNotifyCaught(t, "w243", "w246")
  \/ WorkerNotifyCaught(t, "w249", IF response[t].success THEN "w267" ELSE "w274")
  \/ WorkerNotifyCaught(t, "w278", "w279")
  \/ WorkerNotifyCaught(t, "w285", "w286")

\* Mutant: the worker reactivates its task when it starts.
Worker224Reactivates(t) ==
  WorkerWrite(t, "w224", [task[t] EXCEPT !.status_message = <<"Preparing import...">>,
                                         !.is_active = TRUE], "w225")

Worker224(t) ==
  WorkerWrite(t, "w224", [task[t] EXCEPT !.status_message = <<"Preparing import...">>], "w225")

Worker225(t) == WorkerWrite(t, "w225", [task[t] EXCEPT !.progress = 1], "w226")

Worker226(t) == WorkerNotify(t, "w226", "w241")

Worker241(t) ==
  WorkerWrite(t, "w241", [task[t] EXCEPT !.status_message = <<"Sending to server...">>], "w242")

Worker242(t) == WorkerWrite(t, "w242", [task[t] EXCEPT !.progress = 3], "w243")

\* Mutant: the 0.3 milestone is not notified.
Worker243Silent(t) == WorkerWrite(t, "w243", task[t], "w246")

Worker243(t) == WorkerNotify(t, "w243", "w246")

\* What the remote call can do now: on a closed channel it can only raise.
RemoteOutcomes == IF channel = "open" THEN Outcomes ELSE {o \in Outcomes : o.raised}

\* line 246: the blocking remote call returns a response or raises (the place
\* where the try block can fault: an RpcError, or a call on a closed channel).
Worker246(t) ==
  /\ wpc[t] = "w246"
  /\ \E o \in RemoteOutcomes :
       /\ response' = [response EXCEPT ![t] = o]
       /\ wpc' = [wpc EXCEPT ![t] = IF o.raised THEN "w282" ELSE "w248"]
  /\ ret' = NoRet
  /\ UNCHANGED <<task_counter, import_tasks, progress_callbacks, task, fut, notes,
                 nAlloc, cpc, loc, applied, channel, executor>>

\* Mutant: the 0.8 milestone written as 0.08, below the one before it.
Worker248Low(t) == WorkerWrite(t, "w248", [task[t] EXCEPT !.progress = 0], "w249")

Worker248(t) == WorkerWrite(t, "w248", [task[t] EXCEPT !.progress = 8], "w249")

\* line 249, then the branch of line 253 on response.success.
Worker249(t) ==
  WorkerNotify(t, "w249", IF response[t].success THEN "w267" ELSE "w274")

\* s reversed.
Reverse(s) == [i \in 1..Len(s) |-> s[Len(s) + 1 - i]]

\* Mutant: the shape identifiers are stored in the opposite order.
Worker267Reversed(t) ==
  WorkerWrite(t, "w267", [task[t] EXCEPT !.shape_ids = Reverse(response[t].shape_ids)], "w268")

Worker267(t) ==
  WorkerWrite(t, "w267", [task[t] EXCEPT !.shape_ids = response[t].shape_ids], "w268")

Worker268(t) ==
  WorkerWrite(t, "w268",
    [task[t] EXCEPT !.status_message =
       <<"Import completed: ", NumStr(Len(response[t].shape_ids)), " shapes">>], "w269")

Worker269(t) == WorkerWrite(t, "w269", [task[t] EXCEPT !.progress = 10], "w270")

Worker270(t) == WorkerWrite(t, "w270", [task[t] EXCEPT !.is_active = FALSE], "w278")

\* Mutant: the failure message is not recorded in the error field.
Worker274Skip(t) == WorkerWrite(t, "w274", task[t], "w275")

Worker274(t) ==
  WorkerWrite(t, "w274", [task[t] EXCEPT !.error = response[t].message], "w275")

Worker275(t) ==
  WorkerWrite(t, "w275",
    [task[t] EXCEPT !.status_message = <<"Import failed: ", response[t].message>>], "w276")

Worker276(t) == WorkerWrite(t, "w276", [task[t] EXCEPT !.is_active = FALSE], "w278")

Worker278(t) == WorkerNotify(t, "w278", "w279")

\* line 279: return result; the pool stores it in the Future.
Worker279(t) ==
  /\ wpc[t] = "w279"
  /\ fut' = [fut EXCEPT ![t] = [state |-> "FINISHED", result |-> response[t],
                                exception |-> None]]
  /\ wpc' = [wpc EXCEPT ![t] = "done"]
  /\ ret' = NoRet
  /\ UNCHANGED <<task_counter, import_tasks, progress_callbacks, task, response,
                 notes, nAlloc, cpc, loc, applied, channel, executor>>

\* Mutant: the except block does not record the fault on the task.
Worker282Skip(t) == WorkerWrite(t, "w282", task[t], "w283")

Worker282(t) ==
  WorkerWrite(t, "w282", [task[t] EXCEPT !.error = response[t].message], "w283")

Worker283(t) ==
  WorkerWrite(t, "w283",
    [task[t] EXCEPT !.status_message = <<"Exception: ", response[t].message>>], "w284")

Worker284(t) == WorkerWrite(t, "w284", [task[t] EXCEPT !.is_active = FALSE], "w285")

Worker285(t) == WorkerNotify(t, "w285", "w286")

\* line 286: raise; the pool stores the exception in the Future.
Worker286(t) ==
  /\ wpc[t] = "w286"
  /\ fut' = [fut EXCEPT ![t] = [state |-> "FINISHED", result |-> NoResponse,
                                exception |-> response[t].message]]
  /\ wpc' = [wpc EXCEPT ![t] = "done"]
  /\ ret' = NoRet
  /\ UNCHANGED <<task_counter, import_tasks, progress_callbacks, task, response,
                 notes, nAlloc, cpc, loc, applied, channel, executor>>

WorkerSteps(t) ==
  \/ WorkerStart(t)
  \/ Worker224(t) \/ Worker225(t) \/ Worker226(t)
  \/ Worker241(t) \/ Worker242(t) \/ Worker243(t)
  \/ Worker246(t)
  \/ Worker248(t) \/ Worker249(t)
  \/ Worker267(t) \/ Worker268(t) \/ Worker269(t) \/ Worker270(t)
  \/ Worker274(t) \/ Worker275(t) \/ Worker276(t)
  \/ Worker278(t) \/ Worker279(t)
  \/ Worker282(t) \/ Worker283(t) \/ Worker284(t) \/ Worker285(t) \/ Worker286(t)

----
(***************************************************************************)
(* get_import_task_status (lines 296-298)                                   *)
(***************************************************************************)

\* line 298: return self.import_tasks.get(task_id): the registered ImportTask
\* object itself (the caller reads its fields as they are), or None.
Status298(c, id) ==
  /\ cpc[c] = "idle"
  /\ Return(c, IF id \in DOMAIN import_tasks
                 THEN [NoRet EXCEPT !.op = "status", !.id = id, !.t = import_tasks[id],
                                    !.val = "task"]
                 ELSE [NoRet EXCEPT !.op = "status", !.id = id])
  /\ UNCHANGED tracker

----
(***************************************************************************)
(* cancel_import_task (lines 300-309)                                       *)
(***************************************************************************)

\* line 302: if task_id in self.import_tasks, else line 309: return False; in
\* a call that begins with the locals fr.
CancelEnter(c, fr, id) ==
  /\ IF id \in DOMAIN import_tasks
       THEN /\ Goto(c, "c303")
            /\ loc' = [loc EXCEPT ![c] = [fr EXCEPT !.id = id, !.t = 0]]
       ELSE ReturnTo(c, fr, [NoRet EXCEPT !.op = "cancel", !.id = id, !.val = "False"])
  /\ UNCHANGED tracker

\* cancel_import_task called by the application.
Cancel302(c, id) ==
  /\ cpc[c] = "idle"
  /\ CancelEnter(c, NoLocals, id)

\* line 303: task = self.import_tasks[task_id]; KeyError if the entry has gone.
Cancel303(c) ==
  /\ cpc[c] = "c303"
  /\ IF loc[c].id \in DOMAIN import_tasks
       THEN /\ Goto(c, "c304")
            /\ loc' = [loc EXCEPT ![c].t = import_tasks[loc[c].id]]
       ELSE Raise(c, [NoRet EXCEPT !.op = "cancel", !.id = loc[c].id, !.exc = "KeyError"])
  /\ UNCHANGED tracker

\* line 304: if task.future and not task.future.done(), else line 309: return False
Cancel304(c) ==
  /\ cpc[c] = "c304"
  /\ IF task[loc[c].t].future /\ ~Done(loc[c].t)
       THEN Goto(c, "c305") /\ UNCHANGED loc
       ELSE Return(c, [NoRet EXCEPT !.op = "cancel", !.id = loc[c].id, !.t = loc[c].t,
                                    !.val = "False"])
  /\ UNCHANGED tracker

\* Mutant: the future is never asked to cancel.
FutureCancelNoop(f) == f

\* Future.cancel(): a pending (or already cancelled) future becomes cancelled and
\* the call answers True; a running or finished one is left alone and it answers
\* False.
FutureCancel(f) ==
  IF f.state \in {"PENDING", "CANCELLED"} THEN [f EXCEPT !.state = "CANCELLED"] ELSE f

\* line 305: task.future.cancel(); its answer is dropped.
Cancel305(c) ==
  /\ cpc[c] = "c305"
  /\ fut' = [fut EXCEPT ![loc[c].t] = FutureCancel(@)]
  /\ Goto(c, "c306")
  /\ UNCHANGED <<task_counter, import_tasks, progress_callbacks, task, wpc, response,
                 notes, nAlloc, loc, applied, channel, executor>>

\* line 306: task.status_message = "Cancelled"
Cancel306(c) ==
  /\ cpc[c] = "c306"
  /\ task' = [task EXCEPT ![loc[c].t].status_message = <<"Cancelled">>]
  /\ Goto(c, "c307")
  /\ UNCHANGED <<task_counter, import_tasks, progress_callbacks, fut, wpc, response,
                 notes, nAlloc, loc, applied, channel, executor>>

\* line 307: task.is_active = False, and line 308: return True
Cancel307(c) ==
  /\ cpc[c] = "c307"
  /\ task' = [task EXCEPT ![loc[c].t].is_active = FALSE]
  /\ applied' = applied \cup {loc[c].t}
  /\ Return(c, [NoRet EXCEPT !.op = "cancel", !.id = loc[c].id, !.t = loc[c].t,
                             !.val = "True"])
  /\ UNCHANGED <<task_counter, import_tasks, progress_callbacks, fut, wpc, response,
                 notes, nAlloc, channel, executor>>

CancelSteps(c) ==
  \/ Cancel303(c)
  \/ Cancel304(c)
  \/ Cancel305(c)
  \/ Cancel306(c)
  \/ Cancel307(c)

----
(***************************************************************************)
(* wait_for_import_completion (lines 335-349)                               *)
(***************************************************************************)

\* Mutant: the membership test of line 337 is missing.
Wait337NoCheck(c, id) ==
  /\ cpc[c] = "idle"
  /\ Goto(c, "w340")
  /\ loc' = [loc EXCEPT ![c] = [NoLocals EXCEPT !.id = id]]
  /\ UNCHANGED tracker

\* line 337-338: raise ValueError(f"Task {task_id} not found")
Wait337(c, id) ==
  /\ cpc[c] = "idle"
  /\ IF id \in DOMAIN import_tasks
       THEN /\ Goto(c, "w340")
            /\ loc' = [loc EXCEPT ![c] = [NoLocals EXCEPT !.id = id]]
       ELSE Return(c, [NoRet EXCEPT !.op = "wait", !.id = id, !.exc = "ValueError",
                                    !.msg = <<"Task ", id, " not found">>])
  /\ UNCHANGED tracker

\* line 340: task = self.import_tasks[task_id]; KeyError if the entry has gone.
Wait340(c) ==
  /\ cpc[c] = "w340"
  /\ IF loc[c].id \in DOMAIN import_tasks
       THEN /\ Goto(c, "w341")
            /\ loc' = [loc EXCEPT ![c].t = import_tasks[loc[c].id]]
       ELSE Return(c, [NoRet EXCEPT !.op = "wait", !.id = loc[c].id, !.exc = "KeyError"])
  /\ UNCHANGED tracker

\* line 341: if task.future, else line 349: raise RuntimeError
Wait341(c) ==
  /\ cpc[c] = "w341"
  /\ IF task[loc[c].t].future
       THEN Goto(c, "w343") /\ UNCHANGED loc
       ELSE Return(c, [NoRet EXCEPT !.op = "wait", !.id = loc[c].id, !.t = loc[c].t,
                                    !.exc = "RuntimeError",
                                    !.msg = <<"Task ", loc[c].id, " has no associated future">>])
  /\ UNCHANGED tracker

\* Mutant: a result whose success flag is false is raised to the caller of wait.
WaitOutcomeEscalates(c, t) ==
  IF fut[t].state = "FINISHED" /\ fut[t].exception = None /\ fut[t].result.success
    THEN [NoRet EXCEPT !.op = "wait", !.id = loc[c].id, !.t = t, !.val = "result",
                       !.result = fut[t].result]
    ELSE [NoRet EXCEPT !.op = "wait", !.id = loc[c].id, !.t = t, !.exc = "RuntimeError",
                       !.msg = <<"Import task ", loc[c].id, " failed: ",
                                 IF fut[t].state = "CANCELLED" THEN ""
                                 ELSE IF fut[t].exception = None THEN fut[t].result.message
                                 ELSE fut[t].exception>>]

\* Mutant: a cancelled future gives the caller of wait an empty result.
WaitOutcomeCancelledResult(c, t) ==
  IF fut[t].exception = None
    THEN [NoRet EXCEPT !.op = "wait", !.id = loc[c].id, !.t = t, !.val = "result",
                       !.result = fut[t].result]
    ELSE [NoRet EXCEPT !.op = "wait", !.id = loc[c].id, !.t = t, !.exc = "RuntimeError",
                       !.msg = <<"Import task ", loc[c].id, " failed: ", fut[t].exception>>]

\* What task.future.result() gives the caller of wait once the future is done
\* (lines 343, 346-347): the worker's result, or RuntimeError wrapping the
\* worker's exception, or wrapping CancelledError (whose str() is empty).
WaitOutcome(c, t) ==
  IF fut[t].state = "FINISHED" /\ fut[t].exception = None
    THEN [NoRet EXCEPT !.op = "wait", !.id = loc[c].id, !.t = t, !.val = "result",
                       !.result = fut[t].result]
    ELSE [NoRet EXCEPT !.op = "wait", !.id = loc[c].id, !.t = t, !.exc = "RuntimeError",
                       !.msg = <<"Import task ", loc[c].id, " failed: ",
                                 IF fut[t].state = "CANCELLED" THEN "" ELSE fut[t].exception>>]

\* line 343: task.future.result(timeout=timeout) once the future is done.
Wait343Done(c) ==
  /\ cpc[c] = "w343"
  /\ Done(loc[c].t)
  /\ Return(c, WaitOutcome(c, loc[c].t))
  /\ UNCHANGED tracker

\* Mutant: a timed-out wait also marks the task as finished with a timeout.
Wait343TimeoutMarks(c) ==
  /\ cpc[c] = "w343"
  /\ ~Done(loc[c].t)
  /\ task' = [task EXCEPT ![loc[c].t].is_active = FALSE,
                          ![loc[c].t].status_message = <<"Timed out">>]
  /\ Return(c, [NoRet EXCEPT !.op = "wait", !.id = loc[c].id, !.t = loc[c].t,
                             !.exc = "TimeoutError",
                             !.msg = <<"Import task ", loc[c].id, " timed out">>])
  /\ UNCHANGED <<task_counter, import_tasks, progress_callbacks, fut, wpc, response,
                 notes, nAlloc, applied, channel, executor>>

\* lines 344-345: the deadline passes while the future is not done.
Wait343Timeout(c) ==
  /\ cpc[c] = "w343"
  /\ ~Done(loc[c].t)
  /\ Return(c, [NoRet EXCEPT !.op = "wait", !.id = loc[c].id, !.t = loc[c].t,
                             !.exc = "TimeoutError",
                             !.msg = <<"Import task ", loc[c].id, " timed out">>])
  /\ UNCHANGED tracker

WaitSteps(c) ==
  \/ Wait340(c)
  \/ Wait341(c)
  \/ Wait343Done(c)
  \/ Wait343Timeout(c)

----
(***************************************************************************)
(* cleanup_completed_tasks (lines 351-365)                                  *)
(***************************************************************************)

\* lines 353-356: the ids of the tasks that are inactive and whose future is
\* absent or done.  The comprehension is taken in one step.
CompletedTasks ==
  { id \in DOMAIN import_tasks :
      /\ ~task[import_tasks[id]].is_active
      /\ (~task[import_tasks[id]].future \/ Done(import_tasks[id])) }

Cleanup353(c) ==
  /\ cpc[c] = "idle"
  /\ loc' = [loc EXCEPT ![c] = [NoLocals EXCEPT !.completed = CompletedTasks,
                                             !.todo = CompletedTasks,
                                             !.tmp = Cardinality(CompletedTasks)]]
  /\ Goto(c, "k358")
  /\ UNCHANGED tracker

\* Mutant: the loop leaves the observer registry alone.
Cleanup358KeepsObserver(c) ==
  /\ cpc[c] = "k358"
  /\ \E id \in loc[c].todo :
       /\ import_tasks' = IF id \in DOMAIN import_tasks THEN DictDel(import_tasks, id)
                          ELSE import_tasks
       /\ progress_callbacks' = progress_callbacks
       /\ loc' = [loc EXCEPT ![c].todo = @ \ {id}]
  /\ ret' = NoRet
  /\ UNCHANGED <<task_counter, task, fut, wpc, response, notes, nAlloc, cpc, applied,
                 channel, executor>>

\* lines 358-362, one iteration: the id leaves both dicts if it is in them.
\* The list is walked in any order.
Cleanup358(c) ==
  /\ cpc[c] = "k358"
  /\ \E id \in loc[c].todo :
       /\ import_tasks' = IF id \in DOMAIN import_tasks THEN DictDel(import_tasks, id)
                          ELSE import_tasks
       /\ progress_callbacks' = progress_callbacks \ {id}
       /\ loc' = [loc EXCEPT ![c].todo = @ \ {id}]
  /\ ret' = NoRet
  /\ UNCHANGED <<task_counter, task, fut, wpc, response, notes, nAlloc, cpc, applied,
                 channel, executor>>

\* lines 364-365: the count is printed; the method returns None.
Cleanup364(c) ==
  /\ cpc[c] = "k358"
  /\ loc[c].todo = {}
  /\ Return(c, [NoRet EXCEPT !.op = "cleanup", !.t = loc[c].tmp])
  /\ UNCHANGED tracker

CleanupSteps(c) ==
  \/ Cleanup358(c)
  \/ Cleanup364(c)

----
(***************************************************************************)
(* import_multiple_files (lines 315-333)                                    *)
(***************************************************************************)

\* The files of the local filesystem, and the paths a caller may pass.
Files == {"a.step", "b.step"}
Paths == Files \cup {"missing.step"}

\* Longest list of paths passed to import_multiple_files.
MaxPaths == 3

\* os.path.exists(path)
Exists(path) == path \in Files

\* The entries of a list of paths that exist.
Existing(paths) == {i \in 1..Len(paths) : Exists(paths[i])}

\* The lists of paths a call may be given: at most MaxPaths entries, and no
\* more existing ones than ImportTask objects are left.
PathLists ==
  { ps \in UNION {[1..n -> Paths] : n \in 0..MaxPaths} :
      Cardinality(Existing(ps)) <= MaxTasks - nAlloc }

\* lines 321-324: task_map = {}; base counts the ImportTask objects that exist
\* when the call begins.
Many324(c, paths) ==
  /\ cpc[c] = "idle"
  /\ loc' = [loc EXCEPT ![c] = [NoLocals EXCEPT !.paths = paths, !.i = 1, !.base = nAlloc]]
  /\ Goto(c, "m326")
  /\ UNCHANGED tracker

\* Mutant: every path is submitted, whether or not it exists.
Many327NoCheck(c) ==
  /\ cpc[c] = "m326"
  /\ loc[c].i <= Len(loc[c].paths)
  /\ SubmitEnter(c, [loc[c] EXCEPT !.ra = "m329"], loc[c].paths[loc[c].i], FALSE)

\* lines 326-328, 330-331: the next path; if it exists import_model_async is
\* called with it (and no callback), else it is reported and skipped.
Many327(c) ==
  /\ cpc[c] = "m326"
  /\ loc[c].i <= Len(loc[c].paths)
  /\ IF Exists(loc[c].paths[loc[c].i])
       THEN SubmitEnter(c, [loc[c] EXCEPT !.ra = "m329"], loc[c].paths[loc[c].i], FALSE)
       ELSE /\ loc' = [loc EXCEPT ![c].i = @ + 1]
            /\ Goto(c, "m326")
            /\ UNCHANGED tracker

\* line 329: task_map[file_path] = task_id, with the id import_model_async
\* returned; on to the next path.
Many329(c) ==
  /\ cpc[c] = "m329"
  /\ loc' = [loc EXCEPT ![c] = [@ EXCEPT !.task_map = DictPut(@, loc[c].path, loc[c].id),
                                         !.i = @ + 1, !.id = <<>>, !.t = 0, !.tmp = 0,
                                         !.path = None]]
  /\ Goto(c, "m326")
  /\ UNCHANGED tracker

\* line 333: return task_map
Many333(c) ==
  /\ cpc[c] = "m326"
  /\ loc[c].i > Len(loc[c].paths)
  /\ Return(c, [NoRet EXCEPT !.op = "many", !.paths = loc[c].paths,
                             !.map = loc[c].task_map])
  /\ UNCHANGED tracker

ManySteps(c) ==
  \/ Many327(c)
  \/ Many329(c)
  \/ Many333(c)

----
(***************************************************************************)
(* disconnect (lines 119-130)                                               *)
(***************************************************************************)

\* lines 121-126: if self.channel; the server is notified (a call that touches
\* nothing of the tracker) and the keys of the registry are listed.
Disc121(c) ==
  /\ cpc[c] = "idle"
  /\ IF channel \in {"open", "closed"}
       THEN /\ loc' = [loc EXCEPT ![c] = [NoLocals EXCEPT !.todo = DOMAIN import_tasks]]
            /\ Goto(c, "d126")
       ELSE Return(c, [NoRet EXCEPT !.op = "disconnect"])
  /\ UNCHANGED tracker

\* lines 126-127, one iteration: self.cancel_import_task(task_id) is called for
\* the next listed key.
Disc127(c) ==
  /\ cpc[c] = "d126"
  /\ \E id \in loc[c].todo :
       CancelEnter(c, [loc[c] EXCEPT !.ra = "d126", !.todo = @ \ {id}], id)

\* line 129: self.executor.shutdown(wait=True), first half: the pool accepts
\* no more work.
Disc129Shutdown(c) ==
  /\ cpc[c] = "d126"
  /\ loc[c].todo = {}
  /\ executor' = "shutdown"
  /\ Goto(c, "d129")
  /\ UNCHANGED <<task_counter, import_tasks, progress_callbacks, task, fut, wpc, response,
                 notes, nAlloc, loc, applied, channel>>

\* Mutant: shutdown(wait=False), the pool threads are not joined.
Disc129JoinNoWait(c) ==
  /\ cpc[c] = "d129"
  /\ Goto(c, "d130")
  /\ UNCHANGED <<tracker, loc>>

\* line 129, second half: the pool threads are joined; they leave once every
\* queued work item has run or was cancelled.
Disc129Join(c) ==
  /\ cpc[c] = "d129"
  /\ \A t \in Tasks : fut[t].state \notin {"PENDING", "RUNNING"}
  /\ Goto(c, "d130")
  /\ UNCHANGED <<tracker, loc>>

\* line 130: self.channel.close(), and the method returns.
Disc130(c) ==
  /\ cpc[c] = "d130"
  /\ channel' = "closed"
  /\ Return(c, [NoRet EXCEPT !.op = "disconnect"])
  /\ UNCHANGED <<task_counter, import_tasks, progress_callbacks, task, fut, wpc, response,
                 notes, nAlloc, applied, executor>>

DiscSteps(c) ==
  \/ Disc127(c)
  \/ Disc129Shutdown(c)
  \/ Disc129Join(c)
  \/ Disc130(c)

----
\* One application thread (main) calls the API, one call after the other, while
\* the pool threads run the workers statement by statement.
Next ==
  \/ \E cb \in BOOLEAN : Submit198Load("main", "a.step", cb)
  \/ \E c \in {"main"} :
       \/ SubmitSteps(c)
       \/ \E id \in IdSpace : Cancel302(c, id)
       \/ CancelSteps(c)
       \/ \E id \in IdSpace : Wait337(c, id)
       \/ WaitSteps(c)
       \/ Cleanup353(c)
       \/ CleanupSteps(c)
  \/ \E t \in Tasks : WorkerSteps(t)

Spec == Init /\ [][Next]_vars

\* Two application threads submit concurrently, and clean up, while the pool
\* runs the workers.
NextMT ==
  \/ \E c \in Callers :
       \/ Submit198Load(c, "a.step", TRUE)
       \/ SubmitSteps(c)
       \/ Cleanup353(c)
       \/ CleanupSteps(c)
  \/ \E t \in Tasks : WorkerSteps(t)

SpecMT == Init /\ [][NextMT]_vars

\* One application thread submits tasks, with or without an observer, polls
\* their status and waits for them, while the pool runs the workers; the
\* observer may raise at any of its notifications.
NextObserve ==
  \/ \E cb \in BOOLEAN : Submit198Load("main", "a.step", cb)
  \/ SubmitSteps("main")
  \/ \E id \in IdSpace : Status298("main", id)
  \/ \E id \in IdSpace : Wait337("main", id)
  \/ WaitSteps("main")
  \/ \E t \in Tasks : WorkerSteps(t) \/ ObserverRaises(t)

SpecObserve == Init /\ [][NextObserve]_vars

\* One application thread submits single files and lists of files; no pool
\* thread is scheduled meanwhile.
NextMany ==
  \/ Submit198Load("main", "a.step", TRUE)
  \/ SubmitSteps("main")
  \/ \E paths \in PathLists : Many324("main", paths)
  \/ ManySteps("main")

SpecMany == Init /\ [][NextMany]_vars

\* One application thread submits tasks and disconnects, while the pool runs
\* the workers.
NextDisc ==
  \/ \E cb \in BOOLEAN : Submit198Load("main", "a.step", cb)
  \/ SubmitSteps("main")
  \/ Disc121("main")
  \/ DiscSteps("main")
  \/ CancelSteps("main")
  \/ \E t \in Tasks : WorkerSteps(t)

SpecDisc == Init /\ [][NextDisc]_vars

----
(***************************************************************************)
(* Properties                                                              *)
(***************************************************************************)

\* ImportTask objects that have been constructed.
Born == {t \in Tasks : task[t].id # <<>>}

\* A task record that reports success: progress 1.0, an "Import completed"
\* status and populated shape_ids.
ReportsSuccess(r) ==
  /\ r.progress = 10
  /\ Len(r.status_message) > 0 /\ r.status_message[1] = "Import completed: "
  /\ r.shape_ids # <<>>

\* The step is a call of the observer for task t (which is shown task[t]).
Notified(t) == notes'[t] # notes[t]

\* C1: once cancel_import_task has returned True for a task, no observer
\* notification for that task reports success.
C1_NoSuccessAfterCancel ==
  [][\A t \in Tasks : (t \in applied /\ Notified(t)) => ~ReportsSuccess(task[t])]_vars

\* C2: cancel_import_task returns True only if the cancellation was applied to
\* the operation handle, that is, the future is cancelled.
C2_TrueOnlyIfCancelled ==
  (ret.op = "cancel" /\ ret.val = "True") => fut[ret.t].state = "CANCELLED"

\* C3: in every state each constructed task is Active, Succeeded or Failed with
\* is_active true exactly for Active: an error implies is_active = false, and a
\* recorded success (progress 1.0) implies is_active = false and no error.
C3_ExactlyOneState ==
  \A t \in Born :
    /\ task[t].error # None => ~task[t].is_active
    /\ task[t].progress = 10 => (~task[t].is_active /\ task[t].error = None)

\* The values progress takes, in tenths: 0.0 at creation and the milestones.
ProgressValues == {0, 1, 3, 8, 10}

\* C4: a task's progress never decreases from one state to the next and only
\* takes the values 0.0, 0.1, 0.3, 0.8 and 1.0.
C4_ProgressMonotone ==
  [][\A t \in Tasks : /\ task'[t].progress \in ProgressValues
                      /\ task'[t].progress >= task[t].progress]_vars

\* C4 witness: a task cancelled while its worker ran has reached progress 1.0
\* while the other one is at a lower milestone.
C4_Witness ==
  \E t, u \in Born : /\ t \in applied /\ task[t].progress = 10
                     /\ task[u].progress \in {1, 3, 8}

\* C6: no two submits return the same identifier: distinct ImportTask objects
\* carry distinct ids.
C6_DistinctIds ==
  \A t, u \in Born : t # u => task[t].id # task[u].id

\* The task object is in the registry.
Registered(t) == \E id \in DOMAIN import_tasks : import_tasks[id] = t

\* The step is an iteration of cleanup's deletion loop (lines 358-362).
CleanupDeletes == \E c \in Callers : cpc[c] = "k358" /\ loc'[c].todo # loc[c].todo

\* C5: cleanup never removes a task whose is_active is true: a registered
\* active task is still registered after every deletion step of cleanup.
C5_CleanupKeepsActive ==
  [][CleanupDeletes =>
       \A t \in Born : (Registered(t) /\ task[t].is_active) => Registered(t)']_vars

\* The positions of a thread inside cancel_import_task.
CancelPcs == {"c303", "c304", "c305", "c306", "c307"}

\* The step is a statement of a cancel call that acts on task t.
CancelStepOn(t) ==
  \E c \in Callers : cpc[c] \in CancelPcs /\ cpc'[c] # cpc[c] /\ loc[c].t = t

\* C7, first part: cancel on a registered task answers False only when its
\* future is already done; while the worker has not started it answers True.
C7_FalseOnlyIfDone ==
  (ret.op = "cancel" /\ ret.val = "False" /\ ret.t # 0) => Done(ret.t)

\* C7, second part: a task cancelled before its worker started is cancelled for
\* good: status "Cancelled", inactive, future cancelled, nothing of the worker done.
C7_CancelledRecord ==
  \A t \in Tasks :
    (t \in applied /\ wpc[t] = "none") =>
       /\ fut[t].state = "CANCELLED"
       /\ task[t].status_message = <<"Cancelled">>
       /\ ~task[t].is_active
       /\ task[t].progress = 0 /\ task[t].error = None /\ notes[t] = <<>>

\* C7: cancelling a task whose worker has not started returns True and leaves
\* it "Cancelled" and inactive in every later state, its worker never runs, and
\* no statement of the cancel touches another task.
C7_CancelBeforeStart ==
  /\ [](C7_FalseOnlyIfDone /\ C7_CancelledRecord)
  /\ [][\A t \in Tasks :
          /\ (t \in applied /\ wpc[t] = "none") => wpc'[t] = "none"
          /\ CancelStepOn(t) =>
               \A u \in Tasks \ {t} :
                 /\ task'[u] = task[u] /\ fut'[u] = fut[u] /\ wpc'[u] = wpc[u]
                 /\ notes'[u] = notes[u] /\ response'[u] = response[u]]_vars

\* C7 witness: the second task was cancelled before its worker started, cancel
\* returned True, and the first task has completed its import.
C7_Witness ==
  /\ 2 \in applied /\ wpc[2] = "none" /\ fut[2].state = "CANCELLED"
  /\ wpc[1] = "done" /\ task[1].progress = 10 /\ 1 \notin applied

\* C8, the record: a worker that ended with a fault leaves its task inactive
\* with the fault's description as error, and its observer, if any, was called
\* exactly once after the two milestones before the remote call.
C8_FaultRecord ==
  \A t \in Tasks :
    (wpc[t] = "done" /\ fut[t].exception # None) =>
       /\ ~task[t].is_active
       /\ task[t].error = fut[t].exception
       /\ notes[t] \in {<<>>, <<1, 3, 3>>}
       /\ task[t].id \in progress_callbacks => notes[t] = <<1, 3, 3>>

\* C8, the wait: a wait that finds the faulted future raises (RuntimeError, no
\* result) with the description recorded in the task's error field.
C8_WaitRaises ==
  (ret.op = "wait" /\ ret.t # 0 /\ fut[ret.t].state = "FINISHED"
     /\ fut[ret.t].exception # None) =>
       /\ ret.exc = "RuntimeError" /\ ret.val = None
       /\ ret.msg = <<"Import task ", ret.id, " failed: ", task[ret.t].error>>

\* C8: a worker fault ends the task inactive with error = the fault's
\* description, the observer is shown that state once, and wait raises an error
\* carrying the same description.
C8_Fault ==
  /\ [](C8_FaultRecord /\ C8_WaitRaises)
  /\ [][\A t \in Tasks :
          (wpc[t] = "w285" /\ Notified(t)) =>
             (~task[t].is_active /\ task[t].error = response[t].message)]_vars

\* C8 witness: wait has just raised for a task whose worker faulted and whose
\* observer was notified of the fault.
C8_Witness ==
  /\ ret.op = "wait" /\ ret.exc = "RuntimeError" /\ ret.t # 0
  /\ fut[ret.t].exception = "rpc unavailable"
  /\ notes[ret.t] = <<1, 3, 3>>

\* The positions of a thread inside wait_for_import_completion.
WaitPcs == {"w340", "w341", "w343"}

\* C9: a wait that times out does so while the future is not done, and no
\* statement of a wait call changes the tracker: tasks, futures, workers, both
\* registries and the counter stay as they are.
C9_TimeoutChangesNothing ==
  /\ [](ret.exc = "TimeoutError" => (ret.op = "wait" /\ ~Done(ret.t)))
  /\ [][(\/ ret'.exc = "TimeoutError"
         \/ \E c \in Callers : cpc[c] \in WaitPcs /\ cpc'[c] # cpc[c])
        => UNCHANGED tracker]_vars

\* C9 witness: wait has just timed out on a task whose worker is in the remote
\* call.
C9_Witness ==
  ret.exc = "TimeoutError" /\ wpc[ret.t] = "w246" /\ task[ret.t].is_active

\* C10: wait on an identifier that is not registered raises ValueError in its
\* first step, leaves the tracker unchanged, and never gets past line 337.
C10_WaitNotFound ==
  [][\A c \in Callers :
       /\ (cpc[c] = "idle" /\ ret'.op = "wait" /\ ret'.by = c) =>
             /\ ret'.exc = "ValueError" /\ ret'.id \notin DOMAIN import_tasks
             /\ cpc'[c] = "idle" /\ UNCHANGED tracker
       /\ (cpc[c] = "idle" /\ cpc'[c] = "w340") => loc'[c].id \in DOMAIN import_tasks]_vars

\* C10 witness: wait has just raised ValueError for an identifier that was
\* issued and then removed by cleanup.
C10_Witness ==
  /\ ret.op = "wait" /\ ret.exc = "ValueError"
  /\ ret.id = TaskId(1) /\ task_counter >= 1

----
\* The worker of a task is past the last field write of its response branch
\* (lines 267-270 or 273-276).
Ended(t) == wpc[t] \in {"w278", "w279", "done"}

\* The fields of a task record the terminal-record claims speak of.
Terminal(r) == <<r.progress, r.is_active, r.shape_ids, r.error>>

\* C11, the milestones: from the first notification to the second write the
\* progress is 0.1, and it is 0.3 when the remote call is issued.
C11_Milestones ==
  \A t \in Tasks :
    /\ wpc[t] \in {"w226", "w241", "w242"} => task[t].progress = 1
    /\ wpc[t] \in {"w243", "w246"} => task[t].progress = 3

\* C11, the record: after a successful remote call the task has progress 1.0,
\* is inactive, holds the response's shape ids in their order and has no error
\* (whether or not a cancel was attempted meanwhile).
C11_SuccessRecord ==
  \A t \in Tasks :
    (Ended(t) /\ response[t].success) =>
       /\ task[t].progress = 10 /\ ~task[t].is_active
       /\ task[t].shape_ids = response[t].shape_ids /\ task[t].error = None

\* C11: when the remote call returns success with shape ids S, the worker has
\* passed progress 0.1 and 0.3 before the call, the task ends with progress
\* 1.0, is_active false, shape_ids = S in the same order and no error, and
\* that terminal record never changes afterwards.
C11_Success ==
  /\ [](C11_Milestones /\ C11_SuccessRecord)
  /\ [][\A t \in Tasks :
          (Ended(t) /\ response[t].success) => Terminal(task'[t]) = Terminal(task[t])]_vars

\* C11 witness: wait has returned the successful result of a task that was
\* never cancelled, whose observer saw 0.1, 0.3, 0.8 and 1.0, and whose
\* record holds S1, S2.
C11_Witness ==
  /\ ret.op = "wait" /\ ret.val = "result" /\ ret.result.success
  /\ ret.t \notin applied /\ notes[ret.t] = <<1, 3, 8, 10>>
  /\ task[ret.t].shape_ids = <<"S1", "S2">> /\ task[ret.t].progress = 10

\* The remote call of t has returned a failure outcome.
RemoteFailure(t) ==
  /\ wpc[t] \in {"w248", "w249", "w274", "w275", "w276", "w278", "w279", "done"}
  /\ ~response[t].raised /\ ~response[t].success

\* C12, the record: after a remote failure with message m the task is
\* inactive with error = m and no shape ids.
C12_FailureRecord ==
  \A t \in Tasks :
    (Ended(t) /\ RemoteFailure(t)) =>
       /\ ~task[t].is_active /\ task[t].error = response[t].message
       /\ task[t].shape_ids = <<>>

\* C12: when the remote call returns a failure outcome with message m, the
\* task ends with is_active false, error = m and shape_ids empty, and that
\* terminal record never changes afterwards.
C12_Failure ==
  /\ []C12_FailureRecord
  /\ [][\A t \in Tasks :
          (Ended(t) /\ RemoteFailure(t)) => Terminal(task'[t]) = Terminal(task[t])]_vars

\* C12 witness: the worker of a task that was never cancelled has delivered
\* the failure "file not found", and the record carries it as its error.
C12_Witness ==
  \E t \in Tasks :
    /\ wpc[t] = "done" /\ t \notin applied /\ fut[t].exception = None
    /\ ~fut[t].result.success /\ task[t].error = "file not found"

\* C13, the failure: a wait on a task whose remote call reported failure
\* either times out while the worker is still busy, or returns normally a
\* result with success false and the remote message; it never raises for it.
C13_FailureReturned ==
  (ret.op = "wait" /\ ret.t # 0 /\ RemoteFailure(ret.t)) =>
     \/ ret.exc = "TimeoutError" /\ ~Done(ret.t)
     \/ /\ ret.exc = None /\ ret.val = "result" /\ Done(ret.t)
        /\ ~ret.result.success /\ ret.result.message = response[ret.t].message

\* C13, the raises: wait raises for a timeout, for an unregistered id, for a
\* worker fault, and for a future that was cancelled before its worker ran.
C13_RaiseCauses ==
  (ret.op = "wait" /\ ret.exc # None) =>
     \/ ret.exc = "TimeoutError" /\ ~Done(ret.t)
     \/ ret.exc = "ValueError" /\ ret.id \notin DOMAIN import_tasks
     \/ /\ ret.exc = "RuntimeError" /\ ret.t # 0
        /\ \/ fut[ret.t].state = "FINISHED" /\ fut[ret.t].exception # None
           \/ fut[ret.t].state = "CANCELLED"

----
\* What a task record shows to a reader.
Record(r) == <<r.progress, r.is_active, r.status_message, r.shape_ids, r.error>>

\* The record a worker leaves behind for the remote outcome o.
OutcomeRecord(o) ==
  IF o.raised
    THEN <<3, FALSE, <<"Exception: ", o.message>>, <<>>, o.message>>
    ELSE IF o.success
      THEN <<10, FALSE, <<"Import completed: ", NumStr(Len(o.shape_ids)), " shapes">>,
             o.shape_ids, None>>
      ELSE <<8, FALSE, <<"Import failed: ", o.message>>, <<>>, o.message>>

\* The future a worker leaves behind for the remote outcome o.
OutcomeFuture(o) ==
  IF o.raised THEN [state |-> "FINISHED", result |-> NoResponse, exception |-> o.message]
              ELSE [state |-> "FINISHED", result |-> o, exception |-> None]

\* The observer of t raised at one of its calls.
ObserverRaised(t) == \E i \in 1..Len(notes[t]) : notes[t][i] >= 100

\* C14: an observer that raises at any of its notifications changes nothing:
\* a finished worker leaves the record and the future that its remote outcome
\* alone determines, a wait on it gives the result or the error of that
\* outcome, and no submit raises.
C14_ObserverHarmless ==
  /\ \A t \in Tasks :
       wpc[t] = "done" =>
         /\ response[t] \in Outcomes
         /\ Record(task[t]) = OutcomeRecord(response[t])
         /\ fut[t] = OutcomeFuture(response[t])
  /\ (ret.op = "wait" /\ ret.t # 0 /\ Done(ret.t)) =>
       IF response[ret.t].raised
         THEN /\ ret.exc = "RuntimeError"
              /\ ret.msg = <<"Import task ", ret.id, " failed: ", response[ret.t].message>>
         ELSE ret.exc = None /\ ret.val = "result" /\ ret.result = response[ret.t]
  /\ ret.op = "submit" => ret.exc = None

\* C14 witness: wait has returned the successful result of a task whose
\* observer raised at each of its four notifications.
C14_Witness ==
  /\ ret.op = "wait" /\ ret.val = "result" /\ ret.result.success
  /\ notes[ret.t] = <<101, 103, 108, 110>> /\ ObserverRaised(ret.t)
  /\ task[ret.t].progress = 10

\* The ids of the registered tasks that are inactive with a completed
\* operation handle.
InactiveDone ==
  { id \in DOMAIN import_tasks :
      ~task[import_tasks[id]].is_active /\ Done(import_tasks[id]) }

\* C15: cleanup lists exactly the registered tasks that are inactive with a
\* completed handle when it starts; while it runs, the two registries only
\* lose listed ids and keep every other entry as it is; and when it returns no
\* listed id is left in the task registry or in the observer registry.
C15_CleanupEffect ==
  [][\A c \in Callers :
       /\ (cpc[c] = "idle" /\ cpc'[c] = "k358") => loc'[c].completed = InactiveDone
       /\ cpc[c] = "k358" =>
            /\ DOMAIN import_tasks' \subseteq DOMAIN import_tasks
            /\ (DOMAIN import_tasks \ DOMAIN import_tasks') \subseteq loc[c].completed
            /\ \A id \in DOMAIN import_tasks' : import_tasks'[id] = import_tasks[id]
            /\ progress_callbacks' \subseteq progress_callbacks
            /\ (progress_callbacks \ progress_callbacks') \subseteq loc[c].completed
       /\ (cpc[c] = "k358" /\ cpc'[c] = "k358") => loc'[c].completed = loc[c].completed
       /\ (cpc[c] = "k358" /\ cpc'[c] = "idle") =>
            /\ DOMAIN import_tasks' \cap loc[c].completed = {}
            /\ progress_callbacks' \cap loc[c].completed = {}
            /\ ret'.op = "cleanup"]_vars

\* C15 witness: cleanup has returned after removing a finished task and its
\* observer, and an active task is still registered with its observer.
C15_Witness ==
  /\ ret.op = "cleanup"
  /\ \E t, u \in Born :
       /\ ~Registered(t) /\ notes[t] # <<>> /\ task[t].id \notin progress_callbacks
       /\ Registered(u) /\ task[u].is_active /\ task[u].id \in progress_callbacks

\* C16: cleanup returns the number of tasks it removed (ret.t is the number
\* of ids it listed and deleted).
C16_ReturnsCount ==
  ret.op = "cleanup" => ret.val = NumStr(ret.t)

\* C17: the identifier a submit returns is registered when the submit returns.
C17_RegisteredAtReturn ==
  (ret.op = "submit" /\ ret.exc = None) => ret.id \in DOMAIN import_tasks

\* C18: when import_multiple_files returns, it has created exactly one task
\* for each entry of paths that exists and none for the others, and its
\* mapping has the existing paths as keys, each mapped to the id of a
\* registered task that this call created for that path.
C18_OneTaskPerExistingPath ==
  [][\A c \in Callers :
       (cpc[c] = "m326" /\ ret'.op = "many" /\ ret'.by = c) =>
         LET ps == loc[c].paths
             m == loc[c].task_map
             new == (loc[c].base + 1)..nAlloc
         IN /\ ret'.map = m /\ ret'.paths = ps
            /\ \A p \in Paths :
                 Cardinality({t \in new : task[t].file_path = p})
                   = IF Exists(p) THEN Cardinality({i \in 1..Len(ps) : ps[i] = p}) ELSE 0
            /\ Cardinality(new) = Cardinality(Existing(ps))
            /\ DOMAIN m = {ps[i] : i \in Existing(ps)}
            /\ \A p \in DOMAIN m :
                 \E t \in new : /\ task[t].id = m[p] /\ task[t].file_path = p
                                /\ Registered(t)]_vars

\* C18 witness: a call with an existing, a missing and another existing path
\* has returned a mapping with the two existing paths as keys.
C18_Witness ==
  /\ ret.op = "many" /\ ret.paths = <<"a.step", "missing.step", "b.step">>
  /\ DOMAIN ret.map = {"a.step", "b.step"} /\ ret.map["a.step"] # ret.map["b.step"]
  /\ nAlloc = 2

\* C19: when disconnect closes the channel of a connected client, every work
\* item that was submitted has finished or was cancelled before it started,
\* every registered task is inactive, and disconnect returns; and no worker
\* takes a step while the channel is closed.
C19_OrderlyShutdown ==
  /\ [][(channel = "open" /\ channel' = "closed") =>
          /\ \A t \in Tasks :
               fut[t].state # "NONE" =>
                 \/ fut[t].state = "FINISHED" /\ wpc[t] = "done"
                 \/ fut[t].state = "CANCELLED" /\ wpc[t] = "none"
          /\ \A id \in DOMAIN import_tasks' : ~task'[import_tasks'[id]].is_active
          /\ ret'.op = "disconnect"]_vars
  /\ [][channel = "closed" => wpc' = wpc]_vars

\* C19 witness: disconnect has returned with the channel closed; one task was
\* cancelled before its worker started, the other was marked cancelled while
\* its worker ran and the worker has finished.
C19_Witness ==
  /\ ret.op = "disconnect" /\ channel = "closed" /\ executor = "shutdown"
  /\ \E t, u \in applied :
       /\ fut[t].state = "CANCELLED" /\ wpc[t] = "none"
       /\ fut[u].state = "FINISHED" /\ wpc[u] = "done"

\* A record in which every field belongs to the same milestone: the status
\* message goes with its progress value, and shape ids and error exclude
\* each other.
Untorn(r) ==
  /\ r.status_message = <<"Starting...">> => r.progress = 0
  /\ r.status_message = <<"Preparing import...">> => r.progress = 1
  /\ r.status_message = <<"Sending to server...">> => r.progress \in {3, 8}
  /\ r.progress = 10 <=> r.status_message[1] = "Import completed: "
  /\ ~(r.shape_ids # <<>> /\ r.error # None)

\* C20: the task a status query returns never shows a torn update.
C20_NoTornRead ==
  (ret.op = "status" /\ ret.t # 0) => Untorn(task[ret.t])

----
\* The progress values the observer of t has been shown when the worker is
\* where it is: one per notification passed (lines 226, 243, 249, 278, 285).
NotesAt(t) ==
  CASE wpc[t] \in {"none", "w224", "w225", "w226"} -> <<>>
    [] wpc[t] \in {"w241", "w242", "w243"} -> <<1>>
    [] wpc[t] \in {"w246", "w248", "w249", "w282", "w283", "w284", "w285"} -> <<1, 3>>
    [] wpc[t] \in {"w267", "w268", "w269", "w270", "w274", "w275", "w276", "w278"} ->
         <<1, 3, 8>>
    [] wpc[t] = "w286" -> <<1, 3, 3>>
    [] OTHER -> IF response[t].raised THEN <<1, 3, 3>>
                ELSE IF response[t].success THEN <<1, 3, 8, 10>> ELSE <<1, 3, 8, 8>>

\* C21, the count and order: the observer of a task has been called exactly
\* once for each notification point its worker has passed, in that order, so
\* the remote call (line 246) lies between the 0.3 and the 0.8 notification;
\* a task without observer has no notification.
C21_OncePerMilestone ==
  \A t \in Tasks :
    /\ notes[t] \in {<<>>, NotesAt(t)}
    /\ task[t].id \in progress_callbacks => notes[t] = NotesAt(t)
    /\ \A i, j \in 1..Len(notes[t]) : i <= j => notes[t][i] <= notes[t][j]

\* C21: an observer is notified exactly once at each milestone, in milestone
\* order, with non-decreasing progress: 0.1, 0.3, 0.8 and the terminal update
\* (1.0 and the shape ids, or the failure record) when the remote call
\* returns, and 0.1, 0.3 and one fault notification when it faults.
C21_Notifications ==
  /\ []C21_OncePerMilestone
  /\ [][\A t \in Tasks :
          Notified(t) =>
            /\ wpc[t] \in {"w226", "w243", "w249", "w278", "w285"}
            /\ notes'[t] = Append(notes[t], task[t].progress)
            /\ wpc[t] = "w278" =>
                 /\ ~task[t].is_active
                 /\ IF response[t].success
                      THEN task[t].progress = 10 /\ task[t].shape_ids = response[t].shape_ids
                      ELSE task[t].error = response[t].message
            /\ wpc[t] = "w285" =>
                 ~task[t].is_active /\ task[t].error = response[t].message]_vars

\* C21 witness: one observed task has finished with a remote failure after
\* four notifications and the other is past its 0.3 notification, in the
\* remote call.
C21_Witness ==
  \E t, u \in Born :
    /\ wpc[t] = "done" /\ notes[t] = <<1, 3, 8, 8>> /\ task[t].error = "file not found"
    /\ wpc[u] = "w246" /\ notes[u] = <<1, 3>>

\* C22: a task whose future is done (finished, faulted or cancelled) is
\* inactive, in every state.
C22_DoneImpliesInactive ==
  \A t \in Born : Done(t) => ~task[t].is_active

\* C23: a task is active when it is created, and a task that is inactive
\* stays inactive at every step.
C23_InactiveForGood ==
  [][\A t \in Tasks :
       /\ (task[t].id = <<>> /\ task'[t].id # <<>>) => task'[t].is_active
       /\ (task[t].id # <<>> /\ ~task[t].is_active) => ~task'[t].is_active]_vars

\* C23 witness: a task that cancel marked inactive while its worker ran has
\* been carried to the end by the worker, was cleaned up, and is inactive.
C23_Witness ==
  \E t \in applied :
    /\ wpc[t] = "done" /\ fut[t].state = "FINISHED" /\ ~task[t].is_active
    /\ ~Registered(t) /\ task[t].progress = 10

\* C25: a submit that fails leaves no entry behind in the task registry or in
\* the observer registry.
C25_FailedSubmitLeavesNothing ==
  (ret.op = "submit" /\ ret.exc # None) =>
     ret.id \notin DOMAIN import_tasks /\ ret.id \notin progress_callbacks

\* C26, the outcome: a wait that finds its task's future cancelled raises
\* and returns no result, and the task's record is the cancelled one.
C26_CancelledWaitRaises ==
  (ret.op = "wait" /\ ret.t # 0 /\ fut[ret.t].state = "CANCELLED") =>
     /\ ret.exc = "RuntimeError" /\ ret.val = None /\ ret.result = NoResponse
     /\ Record(task[ret.t]) = <<0, FALSE, <<"Cancelled">>, <<>>, None>>

\* C26: wait on a task cancelled before its worker started raises an error to
\* the caller at once, in the step that finds the cancelled future and never
\* as a timeout, returns no result, and leaves the task's record (status
\* "Cancelled", inactive, no error, no shape ids) as it is.
C26_WaitOnCancelled ==
  /\ []C26_CancelledWaitRaises
  /\ [][\A c \in Callers :
          (cpc[c] = "w343" /\ cpc'[c] # cpc[c] /\ fut[loc[c].t].state = "CANCELLED") =>
             /\ ret'.op = "wait" /\ ret'.exc = "RuntimeError" /\ ret'.by = c
             /\ UNCHANGED tracker]_vars

\* C26 witness: wait has raised for the second task, which was cancelled
\* before its worker started, while the first task's worker is in the remote call.
C26_Witness ==
  /\ ret.op = "wait" /\ ret.exc = "RuntimeError" /\ ret.t = 2
  /\ fut[2].state = "CANCELLED" /\ wpc[2] = "none" /\ 2 \in applied
  /\ wpc[1] = "w246"

----
(***************************************************************************)
(* The pool under load: more tasks than pool threads.  Each method and each *)
(* phase of the worker is taken as one step (no statement of a worker waits *)
(* for another thread, so its progress does not depend on the interleaving  *)
(* of its field writes).                                                    *)
(***************************************************************************)

\* Tasks submitted under load: one more than the pool has threads.
MaxQueued == 6

PoolTasks == 1..MaxQueued

\* The client after __init__ and connect(), with room for MaxQueued tasks.
InitPool ==
  /\ task_counter = 0
  /\ import_tasks = [i \in {} |-> 0]
  /\ progress_callbacks = {}
  /\ task = [t \in PoolTasks |-> Unborn]
  /\ fut = [t \in PoolTasks |-> NoFuture]
  /\ wpc = [t \in PoolTasks |-> "none"]
  /\ response = [t \in PoolTasks |-> NoResponse]
  /\ notes = [t \in PoolTasks |-> <<>>]
  /\ nAlloc = 0
  /\ cpc = [c \in Callers |-> "idle"]
  /\ loc = [c \in Callers |-> NoLocals]
  /\ ret = NoRet
  /\ applied = {}
  /\ channel = "open"
  /\ executor = "running"

\* import_model_async (lines 198-219) as a whole, without callback: the
\* counter is incremented, the task is created and registered, the work item
\* is queued and its future stored in the task.
PoolSubmit(c) ==
  /\ cpc[c] = "idle"
  /\ nAlloc < MaxQueued
  /\ executor = "running"
  /\ nAlloc' = nAlloc + 1
  /\ task_counter' = task_counter + 1
  /\ task' = [task EXCEPT ![nAlloc + 1] =
                [ImportTask(TaskId(task_counter + 1), "a.step") EXCEPT !.future = TRUE]]
  /\ import_tasks' = DictPut(import_tasks, TaskId(task_counter + 1), nAlloc + 1)
  /\ fut' = [fut EXCEPT ![nAlloc + 1].state = "PENDING"]
  /\ Return(c, [NoRet EXCEPT !.op = "submit", !.id = TaskId(task_counter + 1),
                             !.t = nAlloc + 1])
  /\ UNCHANGED <<progress_callbacks, wpc, response, notes, applied, channel, executor>>

\* Work items a pool thread is executing.
PoolBusy == {t \in PoolTasks : fut[t].state = "RUNNING"}

\* A free pool thread takes the oldest queued work item (the queue is first
\* in, first out) and runs lines 224-243, up to the remote call (no observer
\* is registered, so _notify_progress does nothing).
PoolStart(t) ==
  /\ fut[t].state = "PENDING"
  /\ \A u \in PoolTasks : u < t => fut[u].state # "PENDING"
  /\ Cardinality(PoolBusy) < MaxWorkers
  /\ fut' = [fut EXCEPT ![t].state = "RUNNING"]
  /\ task' = [task EXCEPT ![t].status_message = <<"Sending to server...">>,
                          ![t].progress = 3]
  /\ wpc' = [wpc EXCEPT ![t] = "w246"]
  /\ ret' = NoRet
  /\ UNCHANGED <<task_counter, import_tasks, progress_callbacks, response, notes, nAlloc,
                 cpc, loc, applied, channel, executor>>

\* The task record after the worker's last write for outcome o.
Finished(r, o) ==
  [r EXCEPT !.progress = OutcomeRecord(o)[1], !.is_active = OutcomeRecord(o)[2],
            !.status_message = OutcomeRecord(o)[3], !.shape_ids = OutcomeRecord(o)[4],
            !.error = OutcomeRecord(o)[5]]

\* Mutant: the worker ends but its future never completes.
PoolFinishHangs(t) ==
  /\ wpc[t] = "w246"
  /\ \E o \in RemoteOutcomes :
       /\ response' = [response EXCEPT ![t] = o]
       /\ task' = [task EXCEPT ![t] = Finished(@, o)]
  /\ wpc' = [wpc EXCEPT ![t] = "done"]
  /\ ret' = NoRet
  /\ UNCHANGED <<task_counter, import_tasks, progress_callbacks, fut, notes, nAlloc, cpc,
                 loc, applied, channel, executor>>

\* The remote call returns or raises and the worker runs to its end (lines
\* 246-286): the record is written and the future gets the result or the exception.
PoolFinish(t) ==
  /\ wpc[t] = "w246"
  /\ \E o \in RemoteOutcomes :
       /\ response' = [response EXCEPT ![t] = o]
       /\ task' = [task EXCEPT ![t] = Finished(@, o)]
       /\ fut' = [fut EXCEPT ![t] = OutcomeFuture(o)]
  /\ wpc' = [wpc EXCEPT ![t] = "done"]
  /\ ret' = NoRet
  /\ UNCHANGED <<task_counter, import_tasks, progress_callbacks, notes, nAlloc, cpc,
                 loc, applied, channel, executor>>

\* One application thread submits MaxQueued tasks and waits for them, while
\* the pool threads run the workers.
NextPool ==
  \/ PoolSubmit("main")
  \/ \E n \in PoolTasks : Wait337("main", TaskId(n))
  \/ WaitSteps("main")
  \/ \E t \in PoolTasks : PoolStart(t) \/ PoolFinish(t)

\* The pool threads are scheduled fairly, every remote call returns or
\* raises, and a thread inside wait goes on; its deadline need not pass (a
\* wait without timeout has none), so the timeout step is not a fair one.
SpecPool ==
  /\ InitPool /\ [][NextPool]_vars
  /\ WF_vars(\E t \in PoolTasks : PoolStart(t))
  /\ WF_vars(\E t \in PoolTasks : PoolFinish(t))
  /\ WF_vars(Wait340("main") \/ Wait341("main") \/ Wait343Done("main"))

\* Every submitted task has a completed future and is inactive.
AllSettled == \A t \in PoolTasks : task[t].id # <<>> => Done(t) /\ ~task[t].is_active

\* C24: under fair scheduling every submitted task, also one that has to
\* queue for a pool thread, eventually has a completed future and is inactive
\* (a submitted task stays registered here, so "whenever a task is queued or
\* running, later all submitted tasks are settled" says it of each task), and
\* every wait on a registered task eventually returns or raises.
C24_Liveness ==
  /\ (\E t \in PoolTasks : fut[t].state \in {"PENDING", "RUNNING"}) ~> AllSettled
  /\ (cpc["main"] \in WaitPcs) ~> (cpc["main"] = "idle" /\ ret.op = "wait")

\* C24 witness: all pool threads are busy and the sixth task waits in the
\* queue while the application thread waits for it.
C24_Witness ==
  /\ Cardinality(PoolBusy) = MaxWorkers
  /\ fut[MaxQueued].state = "PENDING"
  /\ cpc["main"] = "w343" /\ loc["main"].t = MaxQueued

====
